---- MODULE Spec2Model ----
(***************************************************************************)
(* Model of src/src/app/page.tsx: the 45-minute workout page.              *)
(*                                                                         *)
(* The page is a React client component.  Its state is the hook state of   *)
(* Page, StudentDashboard and useIntervalTimer, the two refs of the timer  *)
(* hook and the animation-frame callback the browser holds for it.         *)
(*                                                                         *)
(* Units.  requestAnimationFrame timestamps (now, lastTick) are in         *)
(* milliseconds; elapsedSec and totalSec are in seconds, as in the source. *)
(* JavaScript numbers are doubles; the model draws timestamps from whole   *)
(* seconds, so that dt = (t - lastTick) / 1000 is an exact integer and all *)
(* arithmetic below is exact.                                              *)
(*                                                                         *)
(* React.  A click handler runs to completion together with the render it  *)
(* causes and the effects of that render (React flushes the effects of a   *)
(* discrete event synchronously).  State updates made INSIDE an effect     *)
(* (the reset() of lines 703-705, the setMetricInputs of lines 721-727)    *)
(* are queued and processed by a later render; the browser may run frame   *)
(* callbacks and repaint before that render.  The queue is `pending`.      *)
(*                                                                         *)
(* Storage.  Page keeps the logs in React state and useLocalStorage copies *)
(* them to localStorage in an effect, after the render (lsLogs).  The      *)
(* student dashboard reads its own copy back from localStorage inside a    *)
(* useMemo (memoLogs).  Numbers that can be NaN (the rating, metric values *)
(* and a draft's minutes) are tagged records; texts typed into inputs are  *)
(* strings.                                                                *)
(***************************************************************************)
EXTENDS Integers, Sequences, FiniteSets, TLC

VARIABLES
    plans,         \* Page: const [plans, setPlans] = useLocalStorage(PLANS_KEY, DEFAULT_PLANS)
    logs,          \* Page: const [logs, setLogs] = useLocalStorage(LOGS_KEY, [])
    selectedId,    \* StudentDashboard: useState(plans[0]?.id || "")
    rpe,           \* StudentDashboard: useState(5), a JavaScript number (Num or NaN)
    metricInputs,  \* StudentDashboard: useState({}), a sequence of [blockId, value] in key order
    isRunning,     \* useIntervalTimer: useState(false)
    elapsedSec,    \* useIntervalTimer: useState(0)
    raf,           \* the frame callback the browser holds: <<>> or <<totalSec the loop closed over>>
    lastTick,      \* useIntervalTimer: useRef(null): <<>> is null, <<t>> a timestamp in ms
    now,           \* the browser's frame clock, ms
    pending,       \* state updates queued by effects and frames, not yet rendered
    nextUid,       \* number of ids drawn by uid() for session logs
    lsLogs,        \* localStorage[LOGS_KEY], parsed: what JSON.parse reads back
    memoLogs,      \* StudentDashboard: the `logs` memo of lines 749-752
    role,          \* Page: useState("student")
    editing,       \* InstructorDashboard: useState(null): <<>> is null, <<plan>> a draft
    status,        \* history: the engine state of the last control operation invoked
    lastOp         \* history: the last operation that acted

vars == <<plans, logs, selectedId, rpe, metricInputs, isRunning, elapsedSec,
          raf, lastTick, now, pending, nextUid, lsLogs, memoLogs, role, editing,
          status, lastOp>>

---------------------------------------------------------------------------
(* Bounds of the model *)

\* seconds between two frame timestamps of the page specification (a throttled
\* tab delivers frames this far apart)
Step == 390
\* the frame clock stops at MaxClock seconds
MaxClock == 3600
\* sessions saved in the page specification
MaxSaves == 1
\* frame callbacks that may run while a render is pending
MaxQueuedFrames == 1
\* the engine specification: blocks per plan, minutes per block, seconds
\* between frames, and the second its frame clock stops at
MaxBlocks == 2
MaxMinutes == 2
EngineStep == 7
MaxEngineClock == 14
\* sessions saved in the log store specification
MaxStoreSaves == 502
\* the recorder specification: sessions saved, seconds between frames, and
\* the second its frame clock stops at
MaxRecSaves == 2
RecStep == 90
MaxRecClock == 180
\* sessions saved in the rating specification
MaxRatingSaves == 2
\* blocks of a draft after Add Block
MaxDraftBlocks == 3

---------------------------------------------------------------------------
(* Helpers *)

Min(a, b) == IF a <= b THEN a ELSE b

RECURSIVE SumMinutes(_)
\* blocks.reduce((a, b) => a + (b.minutes || 0), 0); minutes are integers here,
\* for which (b.minutes || 0) is b.minutes
SumMinutes(blocks) ==
    IF blocks = <<>> THEN 0
    ELSE Head(blocks).minutes + SumMinutes(Tail(blocks))

\* Math.round(n / d) for d > 0: the nearest integer, halves towards +Infinity
RoundDiv(n, d) == (2 * n + d) \div (2 * d)

---------------------------------------------------------------------------
(* Data *)

DEFAULT_BLOCKS ==
    << [id |-> "b1", minutes |-> 10],
       [id |-> "b2", minutes |-> 30],
       [id |-> "b3", minutes |-> 5] >>

DEFAULT_PLANS ==
    << [id |-> "p1", blocks |-> DEFAULT_BLOCKS],
       [id |-> "p2", blocks |-> << [id |-> "b4", minutes |-> 8],
                                   [id |-> "b5", minutes |-> 27],
                                   [id |-> "b6", minutes |-> 10] >>] >>

---------------------------------------------------------------------------
(* The values useIntervalTimer derives on every render (lines 186-254) *)

\* a JavaScript number that is an integer, and the two that are not numbers of
\* the model's arithmetic
Num(n) == [kind |-> "number", val |-> n]
NaN == [kind |-> "NaN", val |-> 0]
Infinity == [kind |-> "Infinity", val |-> 0]
\* what JSON.parse(JSON.stringify(x)) gives for x NaN or Infinity
Null == [kind |-> "null", val |-> 0]

\* totalSec = totalMinutes * 60
TotalSec(blocks) == SumMinutes(blocks) * 60

\* the cumulative memo: for each block, start = acc * 60 before and
\* end = acc * 60 after adding its minutes
Cumulative(blocks) ==
    [i \in 1..Len(blocks) |->
        [id |-> blocks[i].id,
         start |-> SumMinutes(SubSeq(blocks, 1, i - 1)) * 60,
         end |-> SumMinutes(SubSeq(blocks, 1, i)) * 60]]

\* mutant of Current: the interval closed at its end
CurrentClosedEnd(cumul, elapsed) ==
    LET hits == {i \in 1..Len(cumul) :
                    elapsed >= cumul[i].start /\ elapsed <= cumul[i].end}
    IN  IF hits # {}
        THEN <<cumul[CHOOSE i \in hits : \A j \in hits : i <= j]>>
        ELSE IF Len(cumul) = 0 THEN <<>> ELSE <<cumul[Len(cumul)]>>

\* cumulative.find(c => elapsedSec >= c.start && elapsedSec < c.end)
\*   || cumulative[cumulative.length - 1]
\* <<>> is undefined, <<c>> an entry of cumulative
Current(cumul, elapsed) ==
    LET hits == {i \in 1..Len(cumul) :
                    elapsed >= cumul[i].start /\ elapsed < cumul[i].end}
    IN  IF hits # {}
        THEN <<cumul[CHOOSE i \in hits : \A j \in hits : i <= j]>>
        ELSE IF Len(cumul) = 0 THEN <<>> ELSE <<cumul[Len(cumul)]>>

\* Math.round((elapsedSec / totalSec) * 100); 0 / 0 is NaN and x / 0 is
\* Infinity for x > 0, and Math.round keeps both
Percent(elapsed, total) ==
    IF total = 0
    THEN (IF elapsed = 0 THEN NaN ELSE Infinity)
    ELSE Num(RoundDiv(100 * elapsed, total))

\* StudentDashboard: plans.find((p) => p.id === selectedId) || plans[0];
\* <<>> is undefined
SelectedOf(pl, sid) ==
    LET hits == {i \in 1..Len(pl) : pl[i].id = sid}
    IN  IF hits # {}
        THEN <<pl[CHOOSE i \in hits : \A j \in hits : i <= j]>>
        ELSE IF Len(pl) = 0 THEN <<>> ELSE <<pl[1]>>

\* useIntervalTimer(selected?.blocks || DEFAULT_BLOCKS)
BlocksOf(pl, sid) ==
    IF SelectedOf(pl, sid) = <<>> THEN DEFAULT_BLOCKS
    ELSE SelectedOf(pl, sid)[1].blocks

selected == SelectedOf(plans, selectedId)
blocks == BlocksOf(plans, selectedId)
totalSec == TotalSec(blocks)
cumulative == Cumulative(blocks)
current == Current(cumulative, elapsedSec)
percent == Percent(elapsedSec, totalSec)

\* the defaults object of the effect of lines 721-727: every block of the
\* selected plan at 0, in block order
MetricDefaults(pl, sid) ==
    IF SelectedOf(pl, sid) = <<>> THEN <<>>
    ELSE [i \in 1..Len(SelectedOf(pl, sid)[1].blocks) |->
             [blockId |-> SelectedOf(pl, sid)[1].blocks[i].id, value |-> Num(0)]]

---------------------------------------------------------------------------
(* The timer hook's state changes *)

\* mutants of ApplyTick: the clamp forgotten; the timer wrapping to 0 at the end
ApplyTickNoClamp(s, dt, cap) == s + dt
ApplyTickWraps(s, dt, cap) == IF s + dt >= cap THEN 0 ELSE s + dt

\* setElapsedSec((s) => Math.min(s + dt, totalSec)), line 217
ApplyTick(s, dt, cap) == Min(s + dt, cap)

\* dt of the loop, lines 214-215: 0 on the first frame after lastTick was
\* cleared, else the seconds since the previous frame
FrameDelta(t, lt) == IF lt = <<>> THEN 0 ELSE (t - lt[1]) \div 1000

\* mutant of TimerEffect: lastTick.current = null forgotten when not running
TimerEffectKeepsLastTick(oldRun, oldTotal, newRun, newTotal, rafv, lt) ==
    IF oldRun = newRun /\ oldTotal = newTotal
    THEN [raf |-> rafv, lastTick |-> lt]
    ELSE IF ~newRun
         THEN [raf |-> <<>>, lastTick |-> lt]
         ELSE [raf |-> <<newTotal>>, lastTick |-> lt]

\* The effect of lines 207-224, deps [isRunning, totalSec], run after a render
\* that changed (oldRun, oldTotal) to (newRun, newTotal): the new values of
\* the scheduled frame callback and of lastTick.  The cleanup of a run that
\* scheduled a loop cancels the frame; the body then either cancels and
\* clears lastTick (not running) or schedules a loop closed over newTotal.
TimerEffect(oldRun, oldTotal, newRun, newTotal, rafv, lt) ==
    IF oldRun = newRun /\ oldTotal = newTotal
    THEN [raf |-> rafv, lastTick |-> lt]
    ELSE IF ~newRun
         THEN [raf |-> <<>>, lastTick |-> <<>>]
         ELSE [raf |-> <<newTotal>>, lastTick |-> lt]

\* the updates reset() queues, lines 202-205
ResetUpdates ==
    << [op |-> "setIsRunning", val |-> FALSE],
       [op |-> "setElapsedSec", val |-> 0] >>

RECURSIVE ApplyUpdates(_, _)
\* React processes the queued updates of each hook in the order they were
\* queued; st is [isRunning, elapsedSec, metricInputs]
ApplyUpdates(queue, st) ==
    IF queue = <<>> THEN st
    ELSE LET u == Head(queue)
             nx == CASE u.op = "setIsRunning" -> [st EXCEPT !.isRunning = u.val]
                     [] u.op = "setElapsedSec" -> [st EXCEPT !.elapsedSec = u.val]
                     [] u.op = "tick" ->
                            [st EXCEPT !.elapsedSec = ApplyTick(@, u.dt, u.cap)]
                     [] u.op = "setMetricInputs" -> [st EXCEPT !.metricInputs = u.val]
         IN  ApplyUpdates(Tail(queue), nx)

QueuedFrames == Cardinality({i \in 1..Len(pending) : pending[i].op = "tick"})

---------------------------------------------------------------------------
(* The session log store, Page lines 965-969 *)

\* keep last 500
LogCap == 500

Take(seq, n) == SubSeq(seq, 1, Min(n, Len(seq)))

\* mutant of AddLog: the new log put last, so that the slice drops it
AddLogLast(ls, log) == Take(ls \o <<log>>, LogCap)

\* setLogs([log, ...logs].slice(0, 500))
AddLog(ls, log) == Take(<<log>> \o ls, LogCap)

\* Number(value) || 0 for a value that is a number: NaN and 0 give 0
NumberOrZero(x) ==
    IF x.kind = "NaN" \/ (x.kind = "number" /\ x.val = 0) THEN Num(0) ELSE x

\* the SessionLog finish builds, lines 730-744 (userId, date and notes carry
\* no behaviour and are left out)
NewLog ==
    [id |-> nextUid,
     planId |-> selected[1].id,
     duration |-> RoundDiv(elapsedSec, 60),
     rpe |-> rpe,
     metrics |-> [i \in 1..Len(metricInputs) |->
                     [blockId |-> metricInputs[i].blockId,
                      value |-> NumberOrZero(metricInputs[i].value)]]]

\* JSON.stringify writes NaN and Infinity as null; every other number of the
\* model, every string and the order of arrays are read back as written
JsonNumber(x) == IF x.kind = "number" THEN x ELSE Null

JsonLog(log) ==
    [id |-> log.id,
     planId |-> log.planId,
     duration |-> log.duration,
     rpe |-> JsonNumber(log.rpe),
     metrics |-> [j \in 1..Len(log.metrics) |->
                     [blockId |-> log.metrics[j].blockId,
                      value |-> JsonNumber(log.metrics[j].value)]]]

\* JSON.parse(JSON.stringify(state)) of useLocalStorage, lines 103-108, for
\* the list of logs
Json(ls) == [i \in 1..Len(ls) |-> JsonLog(ls[i])]

\* useMemo(() => JSON.parse(localStorage.getItem(LOGS_KEY) || "[]"),
\* [selected?.id, elapsedSec]) in a render in which one dependency went from
\* oldDep to newDep and the other is unchanged: ls is what localStorage holds
\* during the render, memo the value of the previous render
LogsMemo(oldDep, newDep, ls, memo) == IF oldDep = newDep THEN memo ELSE ls

---------------------------------------------------------------------------
(* Logs and improvement, StudentDashboard lines 749-770 *)

\* logs.filter((l) => l.planId === selected?.id)
MyLogs(lg, sel) ==
    SelectSeq(lg, LAMBDA l : sel # <<>> /\ l.planId = sel[1].id)

\* l.metrics.find((m) => m.blockId === blockId)?.value; <<>> is undefined
MetricOf(l, blockId) ==
    LET hits == {j \in 1..Len(l.metrics) : l.metrics[j].blockId = blockId}
    IN  IF hits = {} THEN <<>>
        ELSE <<l.metrics[CHOOSE j \in hits : \A k \in hits : j <= k].value>>

RECURSIVE Series(_, _)
\* myLogs.map(...).filter((v) => typeof v === "number"): null is no number
Series(my, blockId) ==
    IF my = <<>> THEN <<>>
    ELSE LET v == MetricOf(Head(my), blockId)
         IN  (IF v # <<>> /\ v[1].kind # "null" THEN v ELSE <<>>)
             \o Series(Tail(my), blockId)

\* ((latest - baseline) / baseline) * 100 as the exact fraction num / den (the
\* rounding of the double is not modelled)
PercentChange(baseline, latest) ==
    IF baseline.kind = "number" /\ latest.kind = "number"
    THEN [kind |-> "fraction", num |-> (latest.val - baseline.val) * 100,
          den |-> baseline.val]
    ELSE [kind |-> "NaN", num |-> 0, den |-> 0]

\* mutant of ComputeImprovement: the guard on a baseline of 0 forgotten
ComputeImprovementNoGuard(my, blockId) ==
    LET series == Series(my, blockId)
    IN  IF Len(series) < 2
        THEN [baseline |-> <<>>, latest |-> <<>>, percent |-> <<>>]
        ELSE [baseline |-> <<series[1]>>, latest |-> <<series[Len(series)]>>,
              percent |-> <<PercentChange(series[1], series[Len(series)])>>]

\* computeImprovement, lines 756-770; a field that is <<>> is absent.
\* !baseline holds for 0 and NaN.
ComputeImprovement(my, blockId) ==
    LET series == Series(my, blockId)
    IN  IF Len(series) < 2
        THEN [baseline |-> <<>>, latest |-> <<>>, percent |-> <<>>]
        ELSE LET baseline == series[1]
                 latest == series[Len(series)]
             IN  IF baseline.kind = "NaN" \/ (baseline.kind = "number" /\ baseline.val = 0)
                 THEN [baseline |-> <<baseline>>, latest |-> <<latest>>, percent |-> <<>>]
                 ELSE [baseline |-> <<baseline>>, latest |-> <<latest>>,
                       percent |-> <<PercentChange(baseline, latest)>>]

myLogs == MyLogs(memoLogs, selected)

---------------------------------------------------------------------------
(* The inputs of the recorder, lines 873-883 and 898-905.  An input of    *)
(* type "number" delivers "" for a text that is no number.                *)

\* parseFloat and parseInt(_, 10) on the texts the model types
ParseFloat(s) ==
    CASE s = "0" -> Num(0)
      [] s = "10" -> Num(10)
      [] s = "15" -> Num(15)
      [] OTHER -> NaN

ParseInt(s) ==
    CASE s = "0" -> Num(0)
      [] s = "1" -> Num(1)
      [] s = "5" -> Num(5)
      [] s = "10" -> Num(10)
      [] s = "11" -> Num(11)
      [] s = "15" -> Num(15)
      [] s = "-3" -> Num(-3)
      [] OTHER -> NaN

\* {...metricInputs, [b]: v}: the key keeps its place, a new key comes last
PutMetric(mi, b, v) ==
    IF \E i \in 1..Len(mi) : mi[i].blockId = b
    THEN [i \in 1..Len(mi) |-> IF mi[i].blockId = b THEN [blockId |-> b, value |-> v]
                                ELSE mi[i]]
    ELSE Append(mi, [blockId |-> b, value |-> v])

---------------------------------------------------------------------------
(* Operations *)

\* A click handler that leaves the timer state at (run, el): the render it
\* causes, with the `logs` memo of that render, and the timer effect of that
\* render.  The plan is unchanged.
CommitTimer(run, el) ==
    LET eff == TimerEffect(isRunning, totalSec, run, totalSec, raf, lastTick)
    IN  /\ isRunning' = run
        /\ elapsedSec' = el
        /\ memoLogs' = LogsMemo(elapsedSec, el, lsLogs, memoLogs)
        /\ raf' = eff.raf
        /\ lastTick' = eff.lastTick

\* mutant of Start: start restarts the session from 0
StartFromZero ==
    /\ pending = <<>>
    /\ CommitTimer(TRUE, 0)
    /\ status' = "Running"
    /\ lastOp' = IF isRunning THEN "startNoop" ELSE "start"
    /\ UNCHANGED <<plans, logs, selectedId, rpe, metricInputs, now, pending, nextUid,
                   lsLogs, role, editing>>

\* start, lines 198-200; the Start button of line 818.  The dashboard shows
\* the button only while not running; the hook's start() itself is callable in
\* any state, as is pause().
Start ==
    /\ pending = <<>>
    /\ IF isRunning
       THEN /\ UNCHANGED <<isRunning, elapsedSec, raf, lastTick, memoLogs, status>>
            /\ lastOp' = "startNoop"
       ELSE /\ CommitTimer(TRUE, elapsedSec)
            /\ status' = "Running"
            /\ lastOp' = "start"
    /\ UNCHANGED <<plans, logs, selectedId, rpe, metricInputs, now, pending, nextUid,
                   lsLogs, role, editing>>

\* pause, line 201; the Pause button of line 823
Pause ==
    /\ pending = <<>>
    /\ CommitTimer(FALSE, elapsedSec)
    /\ status' = IF isRunning THEN "Paused" ELSE status
    /\ lastOp' = IF isRunning THEN "pause" ELSE "pauseNoop"
    /\ UNCHANGED <<plans, logs, selectedId, rpe, metricInputs, now, pending, nextUid,
                   lsLogs, role, editing>>

\* reset, lines 202-205; the Reset and Discard buttons of lines 828 and 917
Reset ==
    /\ pending = <<>>
    /\ CommitTimer(FALSE, 0)
    /\ status' = "Idle"
    /\ lastOp' = "reset"
    /\ UNCHANGED <<plans, logs, selectedId, rpe, metricInputs, now, pending, nextUid,
                   lsLogs, role, editing>>

\* mutant of Finish: the reset() of line 745 forgotten
FinishNoReset(maxSaves) ==
    /\ pending = <<>>
    /\ nextUid < maxSaves
    /\ selected # <<>>
    /\ logs' = AddLog(logs, NewLog)
    /\ nextUid' = nextUid + 1
    /\ lastOp' = "finish"
    /\ lsLogs' = Json(logs')
    /\ UNCHANGED <<plans, selectedId, rpe, metricInputs, isRunning, elapsedSec, raf,
                   lastTick, now, pending, memoLogs, role, editing, status>>

\* finish, lines 729-746; the Save Session button: builds the log, addLog,
\* reset.  The render reads localStorage for the `logs` memo before the effect
\* of useLocalStorage (lines 106-108) writes the new list to it.  With no
\* plan at all selected.id throws: that is FinishThrows.
Finish(maxSaves) ==
    /\ pending = <<>>
    /\ nextUid < maxSaves
    /\ selected # <<>>
    /\ logs' = AddLog(logs, NewLog)
    /\ nextUid' = nextUid + 1
    /\ CommitTimer(FALSE, 0)
    /\ status' = "Idle"
    /\ lastOp' = "finish"
    /\ lsLogs' = Json(logs')
    /\ UNCHANGED <<plans, selectedId, rpe, metricInputs, now, pending, role, editing>>

\* Select's onValueChange = setSelectedId, line 788.  The render shows the
\* new plan with the timer state as it was; its effects then run: the timer
\* effect if totalSec changed, reset() (lines 703-705) and the metric defaults
\* (lines 721-727), whose state updates wait for the next render.
SelectPlan(id) ==
    /\ pending = <<>>
    /\ id # selectedId
    /\ \E i \in 1..Len(plans) : plans[i].id = id
    /\ selectedId' = id
    /\ LET eff == TimerEffect(isRunning, totalSec, isRunning,
                              TotalSec(BlocksOf(plans, id)), raf, lastTick)
       IN  /\ raf' = eff.raf
           /\ lastTick' = eff.lastTick
    /\ pending' = ResetUpdates \o
                  << [op |-> "setMetricInputs", val |-> MetricDefaults(plans, id)] >>
    /\ status' = "Idle"
    /\ lastOp' = "select"
    /\ memoLogs' = LogsMemo(selectedId, id, lsLogs, memoLogs)
    /\ UNCHANGED <<plans, logs, rpe, metricInputs, isRunning, elapsedSec, now, nextUid,
                   lsLogs, role, editing>>

\* React renders the queued updates, then runs the timer effect
Render ==
    /\ pending # <<>>
    /\ LET st == ApplyUpdates(pending, [isRunning |-> isRunning,
                                        elapsedSec |-> elapsedSec,
                                        metricInputs |-> metricInputs])
       IN  /\ CommitTimer(st.isRunning, st.elapsedSec)
           /\ metricInputs' = st.metricInputs
    /\ pending' = <<>>
    /\ lastOp' = "render"
    /\ UNCHANGED <<plans, logs, selectedId, rpe, now, nextUid, lsLogs, role, editing,
                   status>>

\* loop, lines 213-219, called by the browser with the frame timestamp t
Loop(t) ==
    /\ raf # <<>>
    /\ LET dt == FrameDelta(t, lastTick)
       IN  IF pending = <<>>
           THEN /\ elapsedSec' = ApplyTick(elapsedSec, dt, raf[1])
                /\ memoLogs' = LogsMemo(elapsedSec, elapsedSec', lsLogs, memoLogs)
                /\ UNCHANGED pending
           ELSE /\ QueuedFrames < MaxQueuedFrames
                /\ pending' = Append(pending, [op |-> "tick", dt |-> dt, cap |-> raf[1]])
                /\ UNCHANGED <<elapsedSec, memoLogs>>
    /\ lastTick' = <<t>>
    /\ raf' = raf
    /\ now' = t
    /\ lastOp' = "frame"
    /\ UNCHANGED <<plans, logs, selectedId, rpe, metricInputs, isRunning, nextUid,
                   lsLogs, role, editing, status>>

\* a frame d seconds after the previous one
Frame(d, maxClock) ==
    /\ now + d * 1000 <= maxClock * 1000
    /\ Loop(now + d * 1000)

\* time passes while no loop is scheduled
ClockPasses(d, maxClock) ==
    /\ raf = <<>>
    /\ pending = <<>>
    /\ d > 0
    /\ now + d * 1000 <= maxClock * 1000
    /\ now' = now + d * 1000
    /\ lastOp' = "clock"
    /\ UNCHANGED <<plans, logs, selectedId, rpe, metricInputs, isRunning, elapsedSec,
                   raf, lastTick, pending, nextUid, lsLogs, memoLogs, role, editing,
                   status>>

\* the RPE input, lines 898-905: setRpe(parseInt(e.target.value || "5", 10))
SetRpe(s) ==
    /\ pending = <<>>
    /\ rpe' = ParseInt(IF s = "" THEN "5" ELSE s)
    /\ lastOp' = "rpe"
    /\ UNCHANGED <<plans, logs, selectedId, metricInputs, isRunning, elapsedSec, raf,
                   lastTick, now, pending, nextUid, lsLogs, memoLogs, role, editing,
                   status>>

\* the metric input of block b, lines 873-883, shown for the blocks of the
\* selected plan: setMetricInputs({...metricInputs, [b.id]: parseFloat(e.target.value || "0")})
SetMetric(b, s) ==
    /\ pending = <<>>
    /\ selected # <<>>
    /\ \E i \in 1..Len(selected[1].blocks) : selected[1].blocks[i].id = b
    /\ metricInputs' = PutMetric(metricInputs, b, ParseFloat(IF s = "" THEN "0" ELSE s))
    /\ lastOp' = "metric"
    /\ UNCHANGED <<plans, logs, selectedId, rpe, isRunning, elapsedSec, raf, lastTick,
                   now, pending, nextUid, lsLogs, memoLogs, role, editing, status>>

\* finish with no plan at all (selected is undefined): the object literal of
\* lines 735-744 throws a TypeError at selected.id, before addLog and reset
\* are called; React reports the error and the page stays as it was
FinishThrows ==
    /\ pending = <<>>
    /\ selected = <<>>
    /\ lastOp' = "finishThrows"
    /\ UNCHANGED <<plans, logs, selectedId, rpe, metricInputs, isRunning, elapsedSec,
                   raf, lastTick, now, pending, nextUid, lsLogs, memoLogs, role, editing,
                   status>>

---------------------------------------------------------------------------
(* The role switch of Page, lines 967 and 984, and InstructorDashboard,    *)
(* lines 518-685.  A draft's minutes are JavaScript numbers (Num or NaN);  *)
(* a stored plan's minutes are the integers they then are.                 *)

\* uid() gives a random string; the model takes the first name of a pool
\* that no plan, draft or log holds
NewPlanIds == <<"p3">>
NewBlockIds == <<"b7", "b8", "b9", "b10">>

RECURSIVE BlockIdsOf(_)
BlockIdsOf(pl) ==
    IF pl = <<>> THEN {}
    ELSE {Head(pl).blocks[i].id : i \in 1..Len(Head(pl).blocks)} \cup BlockIdsOf(Tail(pl))

RECURSIVE MetricIdsOf(_)
MetricIdsOf(lg) ==
    IF lg = <<>> THEN {}
    ELSE {Head(lg).metrics[i].blockId : i \in 1..Len(Head(lg).metrics)}
         \cup MetricIdsOf(Tail(lg))

UsedPlanIds ==
    {plans[i].id : i \in 1..Len(plans)} \cup {editing[i].id : i \in 1..Len(editing)}
    \cup {logs[i].planId : i \in 1..Len(logs)}

UsedBlockIds == BlockIdsOf(plans) \cup BlockIdsOf(editing) \cup MetricIdsOf(logs)

\* the names of pool that are not in used, in the order of pool
Unused(pool, used) == SelectSeq(pool, LAMBDA x : x \notin used)

DraftOf(plan) ==
    [id |-> plan.id,
     blocks |-> [i \in 1..Len(plan.blocks) |->
                    [id |-> plan.blocks[i].id, minutes |-> Num(plan.blocks[i].minutes)]]]

StoredOf(draft) ==
    [id |-> draft.id,
     blocks |-> [i \in 1..Len(draft.blocks) |->
                    [id |-> draft.blocks[i].id, minutes |-> draft.blocks[i].minutes.val]]]

RECURSIVE SumDraft(_)
\* editing.blocks.reduce((a, b) => a + b.minutes, 0): NaN once a term is NaN
SumDraft(bs) ==
    IF bs = <<>> THEN Num(0)
    ELSE LET rest == SumDraft(Tail(bs))
         IN  IF Head(bs).minutes.kind = "NaN" \/ rest.kind = "NaN" THEN NaN
             ELSE Num(Head(bs).minutes.val + rest.val)

\* what the handlers of the instructor dashboard leave alone
studentVars == <<selectedId, rpe, metricInputs, isRunning, elapsedSec, raf, lastTick,
                 pending, memoLogs, status>>

\* Select onValueChange = setRole, line 984: the dashboard of the old role is
\* unmounted and its state is gone (the cleanup of the timer effect cancels
\* the frame); the dashboard of the new role is mounted.  StudentDashboard
\* mounts with selectedId = plans[0]?.id || "", a stopped timer and the logs
\* memo read from localStorage; its effects queue reset() and the metric
\* defaults.
SwitchRole(r) ==
    /\ pending = <<>>
    /\ r # role
    /\ role' = r
    /\ editing' = <<>>
    /\ selectedId' = IF r = "student" /\ plans # <<>> THEN plans[1].id ELSE ""
    /\ rpe' = Num(5)
    /\ metricInputs' = <<>>
    /\ isRunning' = FALSE
    /\ elapsedSec' = 0
    /\ raf' = <<>>
    /\ lastTick' = <<>>
    /\ memoLogs' = IF r = "student" THEN lsLogs ELSE <<>>
    /\ pending' = IF r = "student"
                  THEN ResetUpdates \o
                       << [op |-> "setMetricInputs",
                           val |-> MetricDefaults(plans, selectedId')] >>
                  ELSE <<>>
    /\ status' = "Idle"
    /\ lastOp' = "role"
    /\ UNCHANGED <<plans, logs, now, nextUid, lsLogs>>

\* startNew, lines 527-535
StartNew ==
    /\ role = "instructor"
    /\ Len(Unused(NewPlanIds, UsedPlanIds)) >= 1
    /\ Len(Unused(NewBlockIds, UsedBlockIds)) >= Len(DEFAULT_BLOCKS)
    /\ editing' = << [id |-> Unused(NewPlanIds, UsedPlanIds)[1],
                      blocks |-> [i \in 1..Len(DEFAULT_BLOCKS) |->
                                     [id |-> Unused(NewBlockIds, UsedBlockIds)[i],
                                      minutes |-> Num(DEFAULT_BLOCKS[i].minutes)]]] >>
    /\ lastOp' = "startNew"
    /\ UNCHANGED <<plans, logs, now, nextUid, lsLogs, role>>
    /\ UNCHANGED studentVars

\* onEdit of the card of plans[i], line 665: setEditing(p)
EditPlan(i) ==
    /\ role = "instructor"
    /\ i \in 1..Len(plans)
    /\ editing' = <<DraftOf(plans[i])>>
    /\ lastOp' = "editPlan"
    /\ UNCHANGED <<plans, logs, now, nextUid, lsLogs, role>>
    /\ UNCHANGED studentVars

\* MinutesField of block idx of the draft, lines 271 and 354, through the
\* onChange of lines 601-606
SetMinutes(idx, s) ==
    /\ role = "instructor"
    /\ editing # <<>>
    /\ idx \in 1..Len(editing[1].blocks)
    /\ editing' = << [editing[1] EXCEPT
                        !.blocks[idx].minutes = ParseInt(IF s = "" THEN "0" ELSE s)] >>
    /\ lastOp' = "setMinutes"
    /\ UNCHANGED <<plans, logs, now, nextUid, lsLogs, role>>
    /\ UNCHANGED studentVars

\* onDelete of block idx of the draft, lines 607-612
DeleteBlock(idx) ==
    /\ role = "instructor"
    /\ editing # <<>>
    /\ idx \in 1..Len(editing[1].blocks)
    /\ editing' = << [editing[1] EXCEPT
                        !.blocks = SubSeq(@, 1, idx - 1) \o SubSeq(@, idx + 1, Len(@))] >>
    /\ lastOp' = "deleteBlock"
    /\ UNCHANGED <<plans, logs, now, nextUid, lsLogs, role>>
    /\ UNCHANGED studentVars

\* Add Block, lines 615-631: a block of 0 minutes comes last
AddBlock ==
    /\ role = "instructor"
    /\ editing # <<>>
    /\ Len(editing[1].blocks) < MaxDraftBlocks
    /\ Len(Unused(NewBlockIds, UsedBlockIds)) >= 1
    /\ editing' = << [editing[1] EXCEPT
                        !.blocks = Append(@, [id |-> Unused(NewBlockIds, UsedBlockIds)[1],
                                              minutes |-> Num(0)])] >>
    /\ lastOp' = "addBlock"
    /\ UNCHANGED <<plans, logs, now, nextUid, lsLogs, role>>
    /\ UNCHANGED studentVars

\* Cancel, line 647
Cancel ==
    /\ role = "instructor"
    /\ editing # <<>>
    /\ editing' = <<>>
    /\ lastOp' = "cancel"
    /\ UNCHANGED <<plans, logs, now, nextUid, lsLogs, role>>
    /\ UNCHANGED studentVars

\* mutant of SavePlan: the check of the sum forgotten for a plan that is new
SavePlanNewUnchecked ==
    /\ role = "instructor"
    /\ editing # <<>>
    /\ IF \/ SumDraft(editing[1].blocks).kind = "NaN"
          \/ /\ SumDraft(editing[1].blocks) # Num(45)
             /\ \E i \in 1..Len(plans) : plans[i].id = editing[1].id
       THEN /\ lastOp' = "saveRejected"
            /\ UNCHANGED <<plans, editing>>
       ELSE /\ plans' = IF \E i \in 1..Len(plans) : plans[i].id = editing[1].id
                        THEN [i \in 1..Len(plans) |->
                                 IF plans[i].id = editing[1].id THEN StoredOf(editing[1])
                                 ELSE plans[i]]
                        ELSE <<StoredOf(editing[1])>> \o plans
            /\ editing' = <<>>
            /\ lastOp' = "savePlan"
    /\ UNCHANGED <<logs, now, nextUid, lsLogs, role>>
    /\ UNCHANGED studentVars

\* savePlan, lines 537-550; with no draft the Save Plan button is not shown
SavePlan ==
    /\ role = "instructor"
    /\ editing # <<>>
    /\ IF SumDraft(editing[1].blocks) # Num(45)
       THEN /\ lastOp' = "saveRejected"
            /\ UNCHANGED <<plans, editing>>
       ELSE /\ plans' = IF \E i \in 1..Len(plans) : plans[i].id = editing[1].id
                        THEN [i \in 1..Len(plans) |->
                                 IF plans[i].id = editing[1].id THEN StoredOf(editing[1])
                                 ELSE plans[i]]
                        ELSE <<StoredOf(editing[1])>> \o plans
            /\ editing' = <<>>
            /\ lastOp' = "savePlan"
    /\ UNCHANGED <<logs, now, nextUid, lsLogs, role>>
    /\ UNCHANGED studentVars

\* removePlan(plans[i].id), lines 552 and 666
RemovePlan(i) ==
    /\ role = "instructor"
    /\ i \in 1..Len(plans)
    /\ plans' = SelectSeq(plans, LAMBDA p : p.id # plans[i].id)
    /\ lastOp' = "removePlan"
    /\ UNCHANGED <<logs, now, nextUid, lsLogs, role, editing>>
    /\ UNCHANGED studentVars

---------------------------------------------------------------------------
(* The page with the student dashboard mounted and the default plans *)

PlanIds == {"p1", "p2"}
FrameDeltas == {0, Step, 2 * Step}

Init ==
    /\ plans = DEFAULT_PLANS
    /\ logs = <<>>
    /\ selectedId = DEFAULT_PLANS[1].id
    /\ rpe = Num(5)
    /\ metricInputs = MetricDefaults(DEFAULT_PLANS, DEFAULT_PLANS[1].id)
    /\ isRunning = FALSE
    /\ elapsedSec = 0
    /\ raf = <<>>
    /\ lastTick = <<>>
    /\ now = 0
    /\ pending = <<>>
    /\ nextUid = 0
    /\ lsLogs = <<>>
    /\ memoLogs = <<>>
    /\ role = "student"
    /\ editing = <<>>
    /\ status = "Idle"
    /\ lastOp = "init"

Next ==
    \/ Start
    \/ Pause
    \/ Reset
    \/ Finish(MaxSaves)
    \/ \E id \in PlanIds : SelectPlan(id)
    \/ Render
    \/ \E d \in FrameDeltas : Frame(d, MaxClock)
    \/ \E d \in FrameDeltas : ClockPasses(d, MaxClock)

Spec == Init /\ [][Next]_vars

---------------------------------------------------------------------------
(* The page driven by a clock source that may step backwards: the loop is *)
(* also called with a timestamp earlier than the previous one             *)

\* (elapsedSec >= 0 bounds the model: without it the clock could be wound
\* back again and again)
FrameSkewed(d, maxClock) ==
    /\ d > 0
    /\ elapsedSec >= 0
    /\ now - d * 1000 >= 0
    /\ now <= maxClock * 1000
    /\ Loop(now - d * 1000)

NextSkew ==
    \/ Next
    \/ \E d \in FrameDeltas : FrameSkewed(d, MaxClock)

SpecSkew == Init /\ [][NextSkew]_vars

---------------------------------------------------------------------------
(* The timer hook over any list of blocks: useIntervalTimer(blocks) with    *)
(* blocks of non-negative whole minutes, paused at any whole second of the *)
(* plan                                                                    *)

RECURSIVE BlockLists(_)
BlockLists(n) ==
    IF n = 0 THEN {<<>>}
    ELSE BlockLists(n - 1) \cup
         {Append(b, [id |-> Len(b) + 1, minutes |-> m]) :
             b \in {x \in BlockLists(n - 1) : Len(x) = n - 1}, m \in 0..MaxMinutes}

InitEngine ==
    /\ \E b \in BlockLists(MaxBlocks) : plans = << [id |-> "p1", blocks |-> b] >>
    /\ logs = <<>>
    /\ selectedId = "p1"
    /\ rpe = Num(5)
    /\ metricInputs = MetricDefaults(plans, "p1")
    /\ isRunning = FALSE
    /\ elapsedSec \in 0..TotalSec(plans[1].blocks)
    /\ raf = <<>>
    /\ lastTick = <<>>
    /\ now = 0
    /\ pending = <<>>
    /\ nextUid = 0
    /\ lsLogs = <<>>
    /\ memoLogs = <<>>
    /\ role = "student"
    /\ editing = <<>>
    /\ status = IF elapsedSec = 0 THEN "Idle" ELSE "Paused"
    /\ lastOp = "init"

NextEngine ==
    \/ Start
    \/ Pause
    \/ Reset
    \/ \E d \in {0, EngineStep} : Frame(d, MaxEngineClock)

SpecEngine == InitEngine /\ [][NextEngine]_vars

---------------------------------------------------------------------------
(* The log store under repeated Save Session *)

NextStore ==
    \/ Start
    \/ Finish(MaxStoreSaves)

SpecStore == Init /\ [][NextStore]_vars

---------------------------------------------------------------------------
(* The recorder and the analyzer: sessions of the default plans saved with *)
(* metric values typed for the first block of each plan                    *)

MetricTexts == {"", "10", "15"}
RecBlockIds == {"b1", "b4"}

NextRecorder ==
    \/ Start
    \/ Pause
    \/ Finish(MaxRecSaves)
    \/ \E id \in PlanIds : SelectPlan(id)
    \/ Render
    \/ \E d \in {0, RecStep} : Frame(d, MaxRecClock)
    \/ \E b \in RecBlockIds, s \in MetricTexts : SetMetric(b, s)

SpecRecorder == Init /\ [][NextRecorder]_vars

---------------------------------------------------------------------------
(* The effort rating under repeated Save Session *)

RpeTexts == {"", "1", "10", "0", "11", "-3", ".5"}

NextRating ==
    \/ Start
    \/ Finish(MaxRatingSaves)
    \/ \E s \in RpeTexts : SetRpe(s)

SpecRating == Init /\ [][NextRating]_vars

---------------------------------------------------------------------------
(* The instructor view: plans are drafted, edited, saved and deleted *)

\* minutes are typed into the first block of a draft; any block is deleted
MinuteTexts == {"", "15", ".5"}
MinutePositions == {1}
DraftPositions == 1..MaxDraftBlocks
PlanPositions == 1..(Len(DEFAULT_PLANS) + Len(NewPlanIds))
Roles == {"student", "instructor"}

NextPlans ==
    \/ \E r \in Roles : SwitchRole(r)
    \/ Render
    \/ StartNew
    \/ \E i \in PlanPositions : EditPlan(i)
    \/ \E idx \in MinutePositions, s \in MinuteTexts : SetMinutes(idx, s)
    \/ \E idx \in DraftPositions : DeleteBlock(idx)
    \/ AddBlock
    \/ Cancel
    \/ SavePlan
    \/ \E i \in PlanPositions : RemovePlan(i)

SpecPlans == Init /\ [][NextPlans]_vars

---------------------------------------------------------------------------
(* The student view after plans were deleted in the instructor view *)

NextEmptied ==
    \/ \E r \in Roles : SwitchRole(r)
    \/ Render
    \/ \E i \in PlanPositions : RemovePlan(i)
    \/ role = "student" /\ Start
    \/ role = "student" /\ Pause
    \/ \E d \in {0, Step} : Frame(d, MaxClock)
    \/ role = "student" /\ Finish(MaxSaves)
    \/ role = "student" /\ FinishThrows

SpecEmptied == Init /\ [][NextEmptied]_vars

---------------------------------------------------------------------------
(* Claims *)

\* what every operation but the one named leaves alone
TimerState == <<isRunning, elapsedSec, raf, lastTick, status>>
LastBlock == <<cumulative[Len(cumulative)]>>

\* C1: in every state of the page 0 <= elapsedSec <= totalSec of the selected
\* plan, and a frame callback that is rendered at once sets elapsedSec to
\* min(elapsedSec + dt, totalSec).
C1_ElapsedWithinTotal ==
    [][ /\ 0 <= elapsedSec /\ elapsedSec <= totalSec
        /\ 0 <= elapsedSec' /\ elapsedSec' <= totalSec'
        /\ (lastOp' = "frame" /\ pending = <<>>) =>
              elapsedSec' = Min(elapsedSec + (IF lastTick = <<>> THEN 0
                                              ELSE (now' - lastTick[1]) \div 1000),
                                totalSec) ]_vars

\* a frame was clamped at the end of the second plan (no multiple of Step is
\* totalSec)
C1_Witness ==
    /\ lastOp = "frame" /\ isRunning /\ selectedId = "p2"
    /\ elapsedSec = totalSec /\ totalSec > 0

\* C2: once reset() has been invoked and its updates are rendered, the engine
\* is not running and elapsedSec is 0, whatever frame callback was scheduled
\* before the reset.
C2_ResetYieldsIdleZero ==
    (status = "Idle" /\ pending = <<>>) => (~isRunning /\ elapsedSec = 0)

\* C3: pause() while running stops the engine and keeps elapsedSec; while the
\* engine is not running elapsedSec does not change, however far the clock
\* advances; the first frame after start() adds nothing; pause() while not
\* running changes nothing.
C3_PauseFreezes ==
    [][ /\ lastOp' = "pause" =>
              (~isRunning' /\ elapsedSec' = elapsedSec /\ raf' = <<>>)
        /\ (status = "Paused" /\ status' = "Paused") => elapsedSec' = elapsedSec
        /\ (~isRunning /\ lastOp' \in {"clock", "frame"}) => elapsedSec' = elapsedSec
        /\ (lastOp = "start" /\ lastOp' = "frame") => elapsedSec' = elapsedSec
        /\ lastOp' = "pauseNoop" => UNCHANGED TimerState ]_vars

\* the timer was paused with time on the clock, and time has passed since
C3_Witness ==
    /\ lastOp = "clock" /\ status = "Paused" /\ ~isRunning
    /\ elapsedSec > 0 /\ elapsedSec < totalSec
    /\ now > (elapsedSec + 2 * Step) * 1000

\* C4: start() while not running makes the engine running and keeps
\* elapsedSec; start() while running changes nothing.
C4_StartIdempotent ==
    [][ /\ lastOp' = "start" =>
              (~isRunning /\ isRunning' /\ elapsedSec' = elapsedSec /\ raf' # <<>>)
        /\ lastOp' = "startNoop" => (isRunning /\ UNCHANGED TimerState) ]_vars

\* start() was invoked on a running engine with time on the clock
C4_Witness == lastOp = "startNoop" /\ isRunning /\ elapsedSec > 0

\* C5: a change of the selected plan while the timer runs shows the new plan
\* reset: not running, elapsedSec 0.
C5_PlanChangeResets ==
    [][ (isRunning /\ selectedId' # selectedId) =>
            (~isRunning' /\ elapsedSec' = 0) ]_vars

\* C6: while running, no frame callback lowers elapsedSec, also when its
\* timestamp is earlier than the previous one, and a frame with the
\* timestamp of the previous one leaves it unchanged.
C6_MonotoneWhileRunning ==
    [][ (isRunning /\ isRunning' /\ pending = <<>> /\ lastOp' = "frame") =>
            /\ elapsedSec' >= elapsedSec
            /\ (lastTick = <<now'>> => elapsedSec' = elapsedSec) ]_vars

\* C7: percent is round(100 * elapsedSec / totalSec) when totalSec > 0 and 0
\* when totalSec = 0.
C7_PercentRounded ==
    percent = IF totalSec = 0 THEN Num(0)
              ELSE Num((200 * elapsedSec + totalSec) \div (2 * totalSec))

\* C8: for elapsedSec in [0, totalSec] the current block is the first one, in
\* order, whose interval [start, start + 60 * minutes) holds elapsedSec, the
\* last one when elapsedSec is at or past the end of the last interval, and
\* none when the plan has no blocks.
C8_CurrentSegment ==
    LET n == Len(blocks)
        startOf(i) == 60 * SumMinutes(SubSeq(blocks, 1, i - 1))
        endOf(i) == startOf(i) + 60 * blocks[i].minutes
        holds(i) == startOf(i) <= elapsedSec /\ elapsedSec < endOf(i)
    IN  (0 <= elapsedSec /\ elapsedSec <= totalSec) =>
            IF n = 0 THEN current = <<>>
            ELSE /\ current # <<>>
                 /\ \E i \in 1..n :
                       /\ current[1].id = blocks[i].id
                       /\ \/ holds(i) /\ \A j \in 1..(i - 1) : ~holds(j)
                          \/ /\ i = n
                             /\ elapsedSec >= endOf(n)
                             /\ \A j \in 1..n : ~holds(j)

\* at the boundary between two blocks of a minute or more, the second is current
C8_Witness ==
    /\ Len(blocks) = 2
    /\ blocks[1].minutes > 0 /\ blocks[2].minutes > 0
    /\ elapsedSec = 60 * blocks[1].minutes
    /\ isRunning /\ lastOp = "frame"
    /\ current = <<cumulative[2]>>

\* C9: a frame callback on a running engine never stops it; one that reaches
\* or finds elapsedSec = totalSec leaves the engine running at totalSec, with
\* percent 100 and the last block current.
C9_RunsOnAtTotal ==
    [][ (isRunning /\ pending = <<>> /\ lastOp' = "frame") =>
            /\ isRunning' /\ raf' # <<>>
            /\ (elapsedSec + (IF lastTick = <<>> THEN 0
                              ELSE (now' - lastTick[1]) \div 1000) >= totalSec) =>
                  /\ elapsedSec' = totalSec
                  /\ percent' = Num(100)
                  /\ current' = LastBlock' ]_vars

\* the engine is running at totalSec, a frame after the one that reached it
C9_Witness ==
    /\ lastOp = "frame" /\ isRunning /\ elapsedSec = totalSec
    /\ now >= (totalSec + 2 * Step) * 1000
    /\ percent = Num(100) /\ current = LastBlock

\* C10: the log store never holds more than 500 logs, newest first; a save
\* into a full store keeps the new log first and drops the oldest one only.
C10_LogStoreCapped ==
    [][ /\ Len(logs') <= 500
        /\ \A i \in 1..(Len(logs') - 1) : logs'[i].id > logs'[i + 1].id
        /\ lastOp' = "finish" =>
              /\ Len(logs') = Min(Len(logs) + 1, 500)
              /\ logs'[1].id = nextUid
              /\ \A i \in 2..Len(logs') : logs'[i] = logs[i - 1] ]_vars

\* a save into a full store has happened
C10_Witness ==
    /\ lastOp = "finish" /\ Len(logs) = 500 /\ nextUid = 501
    /\ logs[1].id = 500 /\ logs[500].id = 1

C12_FinishBuildsLog ==
    [][ /\ lastOp' = "finish" =>
              /\ logs'[1].duration = (2 * elapsedSec + 60) \div 120
              /\ selected # <<>> /\ logs'[1].planId = selected[1].id
              /\ Len(logs'[1].metrics) = Len(metricInputs)
              /\ \A i \in 1..Len(metricInputs) :
                    /\ logs'[1].metrics[i].blockId = metricInputs[i].blockId
                    /\ logs'[1].metrics[i].value =
                          IF metricInputs[i].value.kind = "NaN" THEN Num(0)
                          ELSE metricInputs[i].value
        /\ lastOp' # "finishThrows" ]_vars

\* the stored logs of the selected plan that carry a number for block b, as
\* positions of the store
Qualifying(b) ==
    {i \in 1..Len(lsLogs) :
        /\ selected # <<>> /\ lsLogs[i].planId = selected[1].id
        /\ MetricOf(lsLogs[i], b) # <<>> /\ MetricOf(lsLogs[i], b)[1].kind # "null"}

\* C13: when the analyzer's log list is the stored one and computeImprovement
\* reports a baseline for a block, the baseline is the block's value in the
\* earliest-saved qualifying log and latest is its value in the most
\* recently saved one (ids are drawn in the order of saving).
C13_BaselineIsEarliest ==
    \A b \in RecBlockIds :
        (memoLogs = lsLogs /\ ComputeImprovement(myLogs, b).baseline # <<>>) =>
            LET q == Qualifying(b)
                first == CHOOSE i \in q : \A j \in q : lsLogs[i].id <= lsLogs[j].id
                last == CHOOSE i \in q : \A j \in q : lsLogs[i].id >= lsLogs[j].id
            IN  /\ ComputeImprovement(myLogs, b).baseline = MetricOf(lsLogs[first], b)
                /\ ComputeImprovement(myLogs, b).latest = MetricOf(lsLogs[last], b)

\* the positions of the analyzer's log list whose log is of the selected plan
\* and carries a number for block b
Considered(b) ==
    {i \in 1..Len(memoLogs) :
        /\ selected # <<>> /\ memoLogs[i].planId = selected[1].id
        /\ \E j \in 1..Len(memoLogs[i].metrics) :
              /\ memoLogs[i].metrics[j].blockId = b
              /\ memoLogs[i].metrics[j].value.kind = "number"}

\* the value for block b of the log at position i of the analyzer's list
ValueAt(i, b) ==
    LET m == memoLogs[i].metrics
    IN  m[CHOOSE j \in 1..Len(m) : m[j].blockId = b].value.val

C15_RatingInRange ==
    \A i \in 1..Len(logs) :
        /\ logs[i].rpe.kind = "number"
        /\ logs[i].rpe.val >= 1 /\ logs[i].rpe.val <= 10

\* C16: a Save Plan of a draft whose minutes do not sum to 45 leaves the plan
\* list as it was and the draft open and unchanged; a Save Plan that stores
\* the draft had a sum of 45; and whatever is drafted, edited, saved and
\* deleted, every stored plan totals 45 minutes.
C16_PlansTotal45 ==
    [][ /\ \A i \in 1..Len(plans') : SumMinutes(plans'[i].blocks) = 45
        /\ (editing # <<>> /\ lastOp' \in {"savePlan", "saveRejected"}) =>
              IF SumDraft(editing[1].blocks) # Num(45)
              THEN /\ lastOp' = "saveRejected"
                   /\ plans' = plans
                   /\ editing' = editing
              ELSE /\ lastOp' = "savePlan"
                   /\ editing' = <<>>
                   /\ \E i \in 1..Len(plans') : plans'[i] = StoredOf(editing[1]) ]_vars

\* a Save Plan was rejected after a plan of two blocks had been stored
C16_Witness ==
    /\ lastOp = "saveRejected" /\ editing # <<>>
    /\ SumDraft(editing[1].blocks) # Num(45)
    /\ \E i \in 1..Len(plans) :
          Len(plans[i].blocks) = 2 /\ SumMinutes(plans[i].blocks) = 45

\* C17: the log list computeImprovement works on holds every log of the
\* store; in particular, once a Save Session is done, the log it stored.
C17_AnalyzerSeesStore ==
    \A i \in 1..Len(logs) : \E j \in 1..Len(memoLogs) : memoLogs[j].id = logs[i].id

====
